---------------------------- MODULE Spec2Model ----------------------------
(***************************************************************************)
(* GVDG tournament scraper: the listing pipeline of dgs-scraper.py (fetch,  *)
(* parse, validate, deduplicate, filter, sort, write tournaments.json) and  *)
(* the sheet pipeline of scripts/scrape_tournaments.py.                     *)
(*                                                                         *)
(* Text is modelled as TLA+ strings, character by character: the regular    *)
(* expressions of the source are data (sequences of nodes) run by a         *)
(* backtracking matcher with Python's preference order (leftmost start,     *)
(* greedy repetition, alternatives in order).                               *)
(***************************************************************************)
EXTENDS Integers, Sequences, FiniteSets, TLC

VARIABLES
    pc,       \* where the run is
    arg,      \* input of the function under test (pure-function harnesses)
    ret,      \* its result, once called
    again,    \* parse_date applied to its own result, once reparsed
    today,    \* the date datetime.now() gave the filter, NoDate before it is read
    html,     \* the document the site serves: its cards, in document order
    attempt,  \* fetch_page's attempt
    script,   \* the program that runs
    sheet,    \* the Google sheet: whether this run has cleared it, and the rows it
              \* has written under the header
    tournament_links,   \* parse_tournaments' tournament_links; the links
                        \* extract_tournaments loops over
    idx,      \* the position of the loop that runs
    seen_urls,          \* parse_tournaments' seen_urls; extract_tournaments' seen
    tournaments,        \* what parse_tournaments returns; the tournaments of
                        \* scrape_tournaments.py's main
    valid_tournaments,  \* main's valid_tournaments
    unique,             \* what deduplicate_tournaments returns
    upcoming,           \* what filter_future_tournaments returns
    ordered,            \* what sort_tournaments, or sort_by_date, returns
    output,             \* the "tournaments" array of tournaments.json, once written
    exit_code           \* the process's exit status, -1 while it runs

(***************************************************************************)
(* Characters and strings                                                  *)
(***************************************************************************)
Chars(str) == {SubSeq(str, i, i) : i \in 1..Len(str)}

LowerAZ == "abcdefghijklmnopqrstuvwxyz"
UpperAZ == "ABCDEFGHIJKLMNOPQRSTUVWXYZ"
DigitStr == "0123456789"

LowerSet == Chars(LowerAZ)
UpperSet == Chars(UpperAZ)
Alpha == LowerSet \cup UpperSet
Digit == Chars(DigitStr)
WordChars == Alpha \cup Digit \cup {"_"}
Space == {" ", "\t", "\n", "\r", "\f"}

\* Python's None
None == "<None>"

CharAt(s, i) == SubSeq(s, i, i)

IndexOf(c, str) == CHOOSE i \in 1..Len(str) : CharAt(str, i) = c

LowerChar(c) == IF c \in UpperSet THEN CharAt(LowerAZ, IndexOf(c, UpperAZ)) ELSE c
UpperChar(c) == IF c \in LowerSet THEN CharAt(UpperAZ, IndexOf(c, LowerAZ)) ELSE c

\* str.lower() and str.upper(), character by character (by halves, to keep the
\* evaluation shallow)
RECURSIVE lower(_)
lower(s) ==
    IF Len(s) <= 1 THEN LowerChar(s)
    ELSE lower(SubSeq(s, 1, Len(s) \div 2)) \o lower(SubSeq(s, Len(s) \div 2 + 1, Len(s)))

RECURSIVE upper(_)
upper(s) ==
    IF Len(s) <= 1 THEN UpperChar(s)
    ELSE upper(SubSeq(s, 1, Len(s) \div 2)) \o upper(SubSeq(s, Len(s) \div 2 + 1, Len(s)))

RECURSIVE lstrip(_)
lstrip(s) == IF s # "" /\ CharAt(s, 1) \in Space THEN lstrip(SubSeq(s, 2, Len(s))) ELSE s

RECURSIVE rstrip(_)
rstrip(s) == IF s # "" /\ CharAt(s, Len(s)) \in Space THEN rstrip(SubSeq(s, 1, Len(s) - 1)) ELSE s

strip(s) == rstrip(lstrip(s))

\* Python's "needle in hay"
Contains(hay, needle) ==
    \E i \in 1..(Len(hay) - Len(needle) + 1) : SubSeq(hay, i, i + Len(needle) - 1) = needle

startswith(s, prefix) == Len(prefix) <= Len(s) /\ SubSeq(s, 1, Len(prefix)) = prefix

\* int(str) of a digit string, and str(int) padded to a width
RECURSIVE ToInt(_)
ToInt(s) == IF s = "" THEN 0 ELSE 10 * ToInt(SubSeq(s, 1, Len(s) - 1)) + (IndexOf(CharAt(s, Len(s)), DigitStr) - 1)

RECURSIVE Pad(_, _)
Pad(n, width) == IF width = 0 THEN "" ELSE Pad(n \div 10, width - 1) \o CharAt(DigitStr, (n % 10) + 1)

RECURSIVE Str(_)
Str(n) == IF n < 10 THEN CharAt(DigitStr, n + 1) ELSE Str(n \div 10) \o CharAt(DigitStr, (n % 10) + 1)

(***************************************************************************)
(* Regular expressions (Python's re): a regex is a sequence of nodes.       *)
(***************************************************************************)
Inf == 999

\* A literal and a class also carry their case-folded form, which an IGNORECASE
\* match compares with the lower-cased subject.
Fold(set) == set \cup {LowerChar(c) : c \in set}

Lit(str) == [k |-> "lit", str |-> str, fold |-> lower(str)]
Cls(set, lo, hi) == [k |-> "cls", set |-> set, fold |-> Fold(set), neg |-> FALSE, lo |-> lo, hi |-> hi]
NotCls(set, lo, hi) == [k |-> "cls", set |-> set, fold |-> Fold(set), neg |-> TRUE, lo |-> lo, hi |-> hi]
Alt(alts) == [k |-> "alt", alts |-> alts]
Opt(re) == Alt(<<re, <<>>>>)
Open(g) == [k |-> "open", g |-> g]
Close(g) == [k |-> "close", g |-> g]
Bol == [k |-> "bol"]
Eol == [k |-> "eol"]
WordBoundary == [k |-> "wordb"]
One(set) == Cls(set, 1, 1)
Lits(strs) == Alt([i \in 1..Len(strs) |-> <<Lit(strs[i])>>])

NoGroups == [g \in 1..4 |-> <<0, 0>>]
NoMatch == [ok |-> FALSE, start |-> 0, end |-> 0, cap |-> NoGroups]

\* s is the subject, lower-cased when ic (IGNORECASE) is set
InCls(c, n, ic) == (c \in (IF ic THEN n.fold ELSE n.set)) # n.neg

\* the first position in lo..hi whose character is not in the class, hi + 1 when
\* there is none (searched by halves, to keep the evaluation shallow)
RECURSIVE FirstOut(_, _, _, _, _)
FirstOut(n, s, lo, hi, ic) ==
    IF lo > hi THEN lo
    ELSE IF lo = hi THEN (IF InCls(CharAt(s, lo), n, ic) THEN hi + 1 ELSE lo)
    ELSE LET mid == (lo + hi) \div 2
             left == FirstOut(n, s, lo, mid, ic)
         IN  IF left <= mid THEN left ELSE FirstOut(n, s, mid + 1, hi, ic)

Min2(a, b) == IF a < b THEN a ELSE b

\* \b: exactly one of the characters before and at pos is a word character
IsWordAt(s, i) == i >= 1 /\ i <= Len(s) /\ CharAt(s, i) \in WordChars

AtWordBoundary(s, pos) == IsWordAt(s, pos - 1) # IsWordAt(s, pos)

\* how many characters from pos on are in the class, at most n.hi
Run(n, s, pos, ic) == FirstOut(n, s, pos, Min2(Len(s), pos + n.hi - 1), ic) - pos

LitAt(s, pos, n, ic) ==
    /\ pos + Len(n.str) - 1 <= Len(s)
    /\ SubSeq(s, pos, pos + Len(n.str) - 1) = (IF ic THEN n.fold ELSE n.str)

RECURSIVE Match(_, _, _, _, _)
RECURSIVE MatchRep(_, _, _, _, _, _, _, _)
RECURSIVE MatchAlt(_, _, _, _, _, _, _)

\* the match of re at pos, the first one in the matcher's preference order
Match(re, s, pos, cap, ic) ==
    IF re = <<>> THEN [ok |-> TRUE, start |-> 0, end |-> pos, cap |-> cap]
    ELSE LET n == Head(re)
             rest == Tail(re)
         IN  CASE n.k = "lit" ->
                    IF LitAt(s, pos, n, ic)
                    THEN Match(rest, s, pos + Len(n.str), cap, ic) ELSE NoMatch
               [] n.k = "cls" -> MatchRep(n, rest, s, pos, n.lo, Run(n, s, pos, ic), cap, ic)
               [] n.k = "alt" -> MatchAlt(n.alts, 1, rest, s, pos, cap, ic)
               [] n.k = "open" -> Match(rest, s, pos, [cap EXCEPT ![n.g] = <<pos, pos>>], ic)
               [] n.k = "close" -> Match(rest, s, pos, [cap EXCEPT ![n.g] = <<cap[n.g][1], pos>>], ic)
               [] n.k = "bol" -> IF pos = 1 THEN Match(rest, s, pos, cap, ic) ELSE NoMatch
               [] n.k = "wordb" ->
                    IF AtWordBoundary(s, pos) THEN Match(rest, s, pos, cap, ic) ELSE NoMatch
               [] n.k = "eol" ->
                    IF pos = Len(s) + 1 \/ (pos = Len(s) /\ CharAt(s, pos) = "\n")
                    THEN Match(rest, s, pos, cap, ic) ELSE NoMatch

\* greedy repetition: of the counts lo..hi, the greatest after which the rest matches
\* (the upper half of the counts first)
MatchRep(n, rest, s, pos, lo, hi, cap, ic) ==
    IF lo > hi THEN NoMatch
    ELSE IF lo = hi THEN Match(rest, s, pos + lo, cap, ic)
    ELSE LET mid == (lo + hi + 1) \div 2
             more == MatchRep(n, rest, s, pos, mid, hi, cap, ic)
         IN  IF more.ok THEN more ELSE MatchRep(n, rest, s, pos, lo, mid - 1, cap, ic)

\* alternatives in the order written
MatchAlt(alts, i, rest, s, pos, cap, ic) ==
    IF i > Len(alts) THEN NoMatch
    ELSE LET r == Match(alts[i] \o rest, s, pos, cap, ic)
         IN  IF r.ok THEN r ELSE MatchAlt(alts, i + 1, rest, s, pos, cap, ic)

\* re.match: anchored at the start of the string
re_match(re, s, ic) == [Match(re, IF ic THEN lower(s) ELSE s, 1, NoGroups, ic) EXCEPT !.start = 1]

\* the match with the leftmost start in lo..hi (the lower half of the starts first)
RECURSIVE SearchIn(_, _, _, _, _)
SearchIn(re, s, lo, hi, ic) ==
    IF lo > hi THEN NoMatch
    ELSE IF lo = hi THEN [Match(re, s, lo, NoGroups, ic) EXCEPT !.start = lo]
    ELSE LET mid == (lo + hi) \div 2
             left == SearchIn(re, s, lo, mid, ic)
         IN  IF left.ok THEN left ELSE SearchIn(re, s, mid + 1, hi, ic)

\* re.search
re_search(re, s, ic) == SearchIn(re, IF ic THEN lower(s) ELSE s, 1, Len(s) + 1, ic)

\* m.group(g); None for a group that took no part in the match
group(m, s, g) ==
    IF g = 0 THEN SubSeq(s, m.start, m.end - 1)
    ELSE IF m.cap[g][1] = 0 THEN None
    ELSE SubSeq(s, m.cap[g][1], m.cap[g][2] - 1)

\* re.sub with a constant replacement: every non-overlapping match, left to right
\* (none of the patterns substituted in the source matches the empty string, and
\* none is compiled IGNORECASE)
RECURSIVE SubFrom(_, _, _, _)
SubFrom(re, repl, s, i) ==
    LET m == SearchIn(re, s, i, Len(s) + 1, FALSE)
    IN  IF ~m.ok \/ m.end = m.start THEN SubSeq(s, i, Len(s))
        ELSE SubSeq(s, i, m.start - 1) \o repl \o SubFrom(re, repl, s, m.end)

re_sub(re, repl, s) == SubFrom(re, repl, s, 1)

(***************************************************************************)
(* Calendar dates (datetime): a date is a record [y, m, d]                  *)
(***************************************************************************)
MonthAbbr == <<"Jan", "Feb", "Mar", "Apr", "May", "Jun", "Jul", "Aug", "Sep", "Oct", "Nov", "Dec">>
MonthFull == <<"January", "February", "March", "April", "May", "June", "July",
               "August", "September", "October", "November", "December">>

IsLeap(y) == (y % 4 = 0 /\ y % 100 # 0) \/ y % 400 = 0

DaysInMonth(y, m) ==
    IF m = 2 THEN (IF IsLeap(y) THEN 29 ELSE 28)
    ELSE IF m \in {4, 6, 9, 11} THEN 30 ELSE 31

NoDate == [y |-> 0, m |-> 0, d |-> 0]
ValueError == [ok |-> FALSE, y |-> 0, m |-> 0, d |-> 0]

\* the regex _strptime builds for "<month> %d, %Y": blanks of the format are \s+,
\* %d is 3[0-1]|[1-2]\d|0[1-9]|[1-9]| [1-9], %Y is \d\d\d\d; compiled IGNORECASE
StrptimeRe(names) ==
    << Open(1), Lits(names), Close(1),
       Cls(Space, 1, Inf),
       Open(2),
       Alt(<< <<Lit("3"), One({"0", "1"})>>,
              <<One({"1", "2"}), One(Digit)>>,
              <<Lit("0"), One(Digit \ {"0"})>>,
              <<One(Digit \ {"0"})>>,
              <<Lit(" "), One(Digit \ {"0"})>> >>),
       Close(2),
       Lit(","),
       Cls(Space, 1, Inf),
       Open(3), Cls(Digit, 4, 4), Close(3) >>

StrptimeAbbrRe == StrptimeRe(MonthAbbr)
StrptimeFullRe == StrptimeRe(MonthFull)

MonthNumber(name, names) == CHOOSE i \in 1..Len(names) : lower(names[i]) = lower(name)

\* datetime.strptime(s, "%b %d, %Y") / (s, "%B %d, %Y"): the whole string must be
\* consumed and the fields must name a day of the calendar (year 1..9999)
strptime(s, names) ==
    LET m == re_match(IF names = MonthAbbr THEN StrptimeAbbrRe ELSE StrptimeFullRe, s, TRUE)
    IN  IF ~m.ok \/ m.end # Len(s) + 1 THEN ValueError
        ELSE LET y == ToInt(group(m, s, 3))
                 mo == MonthNumber(group(m, s, 1), names)
                 d == ToInt(strip(group(m, s, 2)))
             IN  IF y >= 1 /\ d <= DaysInMonth(y, mo)
                 THEN [ok |-> TRUE, y |-> y, m |-> mo, d |-> d]
                 ELSE ValueError

\* dt.strftime("%Y-%m-%d")
\* dt.strftime("%Y-%m-%d"): %m and %d are zero-padded; %Y is not (glibc writes the
\* year 999 as "999")
strftime(dt) ==
    (IF dt.y >= 1000 THEN Pad(dt.y, 4) ELSE Str(dt.y)) \o "-" \o Pad(dt.m, 2) \o "-" \o Pad(dt.d, 2)

(***************************************************************************)
(* parse_date                                                              *)
(***************************************************************************)
\* ^[A-Za-z]{3}(-[A-Za-z]{3})?,\s*
WeekdayPrefixRe ==
    << Bol, Cls(Alpha, 3, 3), Opt(<<Open(1), Lit("-"), Cls(Alpha, 3, 3), Close(1)>>),
       Lit(","), Cls(Space, 0, Inf) >>

\* ([A-Za-z]{3})\s+(\d{1,2})-\d{1,2},\s*(\d{4})
SameMonthRangeRe ==
    << Open(1), Cls(Alpha, 3, 3), Close(1), Cls(Space, 1, Inf),
       Open(2), Cls(Digit, 1, 2), Close(2), Lit("-"), Cls(Digit, 1, 2),
       Lit(","), Cls(Space, 0, Inf), Open(3), Cls(Digit, 4, 4), Close(3) >>

\* a variant of the cross-month pattern whose groups 1 and 2 sit on the end of the
\* range: [A-Za-z]{3}\s+\d{1,2}-([A-Za-z]{3})\s+(\d{1,2}),\s*(\d{4})
CrossMonthRangeEndRe ==
    << Cls(Alpha, 3, 3), Cls(Space, 1, Inf), Cls(Digit, 1, 2), Lit("-"),
       Open(1), Cls(Alpha, 3, 3), Close(1), Cls(Space, 1, Inf),
       Open(2), Cls(Digit, 1, 2), Close(2), Lit(","), Cls(Space, 0, Inf),
       Open(3), Cls(Digit, 4, 4), Close(3) >>

\* ([A-Za-z]{3})\s+(\d{1,2})-[A-Za-z]{3}\s+\d{1,2},\s*(\d{4})
CrossMonthRangeRe ==
    << Open(1), Cls(Alpha, 3, 3), Close(1), Cls(Space, 1, Inf),
       Open(2), Cls(Digit, 1, 2), Close(2), Lit("-"), Cls(Alpha, 3, 3), Cls(Space, 1, Inf),
       Cls(Digit, 1, 2), Lit(","), Cls(Space, 0, Inf), Open(3), Cls(Digit, 4, 4), Close(3) >>

\* f"{month} {day}, {year}" of the groups of a range match, the text itself otherwise
StartOfRange(re, text) ==
    LET m == re_match(re, text, FALSE)
    IN  IF m.ok THEN group(m, text, 1) \o " " \o group(m, text, 2) \o ", " \o group(m, text, 3)
        ELSE text

parse_date(date_text) ==
    IF date_text = "" \/ date_text = None THEN None
    ELSE LET stripped == strip(date_text)
             noweekday == re_sub(WeekdayPrefixRe, "", stripped)
             same == StartOfRange(SameMonthRangeRe, noweekday)
             cross == StartOfRange(CrossMonthRangeRe, same)
             abbr == strptime(strip(cross), MonthAbbr)
             full == strptime(strip(cross), MonthFull)
         IN  IF abbr.ok THEN strftime(abbr)
             ELSE IF full.ok THEN strftime(full)
             ELSE None

(***************************************************************************)
(* extract_tier, extract_spots, is_gvdg_tournament, calculate_distance      *)
(***************************************************************************)
extract_tier(text) ==
    IF text = "" \/ text = None THEN "Other"
    ELSE LET t == upper(text)
         IN  IF Contains(t, "A-TIER") THEN "A"
             ELSE IF Contains(t, "B-TIER") THEN "B"
             ELSE IF Contains(t, "C-TIER") \/ Contains(t, "C/B-TIER") THEN "C"
             ELSE IF Contains(t, "XC-TIER") THEN "XC"
             ELSE IF Contains(t, "LEAGUE") THEN "League"
             ELSE IF Contains(t, "DOUBLES") THEN "Doubles"
             ELSE "Other"

\* (\d+)\s*/\s*(\d+)
SpotsRe ==
    << Open(1), Cls(Digit, 1, Inf), Close(1), Cls(Space, 0, Inf), Lit("/"),
       Cls(Space, 0, Inf), Open(2), Cls(Digit, 1, Inf), Close(2) >>

extract_spots(text) ==
    IF text = "" \/ text = None THEN None
    ELSE LET m == re_search(SpotsRe, text, FALSE)
         IN  IF m.ok THEN group(m, text, 1) \o "/" \o group(m, text, 2) ELSE None

\* CONFIG["gvdg_keywords"]
gvdg_keywords == <<"gvdg", "greenville valley", "hangover", "chili bowl", "frozen bowl", "ayden founders">>

is_gvdg_tournament(name) ==
    IF name = "" \/ name = None THEN FALSE
    ELSE \E i \in 1..Len(gvdg_keywords) : Contains(lower(name), gvdg_keywords[i])

\* the dict of calculate_distance, in insertion order
known_distances ==
    << <<"greenville", 0>>, <<"farmville", 10>>, <<"ayden", 10>>, <<"winterville", 5>>,
       <<"kinston", 28>>, <<"rocky mount", 40>>, <<"wilson", 35>>, <<"jacksonville", 50>>,
       <<"richlands", 55>>, <<"maysville", 50>>, <<"new bern", 40>>, <<"zebulon", 55>>,
       <<"raleigh", 80>>, <<"goldsboro", 45>>, <<"cary", 75>> >>

DefaultDistance == 30

\* for known_city, distance in known_distances.items(): the first hit returns
RECURSIVE ScanDistances(_, _)
ScanDistances(city_lower, i) ==
    IF i > Len(known_distances) THEN DefaultDistance
    ELSE IF Contains(city_lower, known_distances[i][1]) THEN known_distances[i][2]
    ELSE ScanDistances(city_lower, i + 1)

\* a variant of calculate_distance whose loop does not return on the first hit:
\* the last entry of the table that occurs in the city decides
calculate_distance_last_hit(city) ==
    IF city = "" \/ city = None THEN 30
    ELSE LET hits == {i \in 1..Len(known_distances) : Contains(lower(city), known_distances[i][1])}
         IN  IF hits = {} THEN DefaultDistance
             ELSE known_distances[CHOOSE i \in hits : \A j \in hits : j <= i][2]

calculate_distance(city) ==
    IF city = "" \/ city = None THEN 30
    ELSE ScanDistances(lower(city), 1)

(***************************************************************************)
(* The document.  The page is [document] > html > body > card*, a card      *)
(* holding one link: [href, text, pre, post, inner], where text is the      *)
(* link's text, pre and post the card's text pieces before and after the    *)
(* link, and inner the number of elements between the link and its card     *)
(* that hold nothing but the link.                                          *)
(***************************************************************************)
DGS_BASE_URL == "https://www.discgolfscene.com"

\* [document], html and body: the ancestors every card has
PageLevels == 3

RECURSIVE JoinWith(_, _)
JoinWith(pieces, sep) ==
    IF pieces = <<>> THEN ""
    ELSE IF Len(pieces) = 1 THEN pieces[1]
    ELSE pieces[1] \o sep \o JoinWith(Tail(pieces), sep)

NonEmpty(piece) == piece # ""

CardPieces(card) == SelectSeq(card.pre \o <<card.text>> \o card.post, NonEmpty)

RECURSIVE PagePieces(_)
PagePieces(doc) == IF doc = <<>> THEN <<>> ELSE CardPieces(Head(doc)) \o PagePieces(Tail(doc))

\* the k-th ancestor's get_text(separator='|', strip=True); None above [document]
AncestorText(doc, i, k) ==
    LET card == doc[i]
    IN  IF k <= card.inner THEN card.text
        ELSE IF k = card.inner + 1 THEN JoinWith(CardPieces(card), "|")
        ELSE IF k <= card.inner + 1 + PageLevels THEN JoinWith(PagePieces(doc), "|")
        ELSE None

(***************************************************************************)
(* parse_tournaments: the regular expressions and one pass of its loop      *)
(***************************************************************************)
Weekdays == <<"Mon", "Tue", "Wed", "Thu", "Fri", "Sat", "Sun">>

\* /tournaments/[A-Za-z0-9_-]+(?:_\d{4})?/?$
TournamentHrefRe ==
    << Lit("/tournaments/"), Cls(Alpha \cup Digit \cup {"_", "-"}, 1, Inf),
       Opt(<<Lit("_"), Cls(Digit, 4, 4)>>), Cls({"/"}, 0, 1), Eol >>

skip_patterns == <<"search", "North_Carolina", "PDGA", "/tournaments/$", "registration">>

skip_keywords == <<"privacy", "terms", "help", "contact", "sign in",
                   "classic version", "load more", "view all", "cookies">>

ContainsAny(text, needles) == \E n \in 1..Len(needles) : Contains(text, needles[n])

\* (Mon|Tue|Wed|Thu|Fri|Sat|Sun).*\d{4}
HasDateInfoRe == << Open(1), Lits(Weekdays), Close(1), NotCls({"\n"}, 0, Inf), Cls(Digit, 4, 4) >>

\* ((?:Mon|...|Sun)(?:-(?:Mon|...|Sun))?,\s*[A-Za-z]{3}\s+\d{1,2}(?:-(?:[A-Za-z]{3}\s+)?\d{1,2})?,\s*\d{4})
ListingDateRe ==
    << Open(1), Lits(Weekdays), Opt(<<Lit("-"), Lits(Weekdays)>>), Lit(","), Cls(Space, 0, Inf),
       Cls(Alpha, 3, 3), Cls(Space, 1, Inf), Cls(Digit, 1, 2),
       Opt(<<Lit("-"), Opt(<<Cls(Alpha, 3, 3), Cls(Space, 1, Inf)>>), Cls(Digit, 1, 2)>>),
       Lit(","), Cls(Space, 0, Inf), Cls(Digit, 4, 4), Close(1) >>

\* ([A-Za-z]{3}\s+\d{1,2},\s*\d{4})
SimpleDateRe ==
    << Open(1), Cls(Alpha, 3, 3), Cls(Space, 1, Inf), Cls(Digit, 1, 2), Lit(","),
       Cls(Space, 0, Inf), Cls(Digit, 4, 4), Close(1) >>

\* (?:at\s+)?([A-Za-z0-9\s\'\-\.]+(?:Park|Course|DGC|Complex|Woods|Creek|Farm|Club|Disc Golf)[A-Za-z\s]*),?\s*([A-Za-z\s]+),\s*(NC|North Carolina)
\* compiled IGNORECASE
VenueRe ==
    << Opt(<<Lit("at"), Cls(Space, 1, Inf)>>),
       Open(1), Cls(Alpha \cup Digit \cup Space \cup {"'", "-", "."}, 1, Inf),
       Lits(<<"Park", "Course", "DGC", "Complex", "Woods", "Creek", "Farm", "Club", "Disc Golf">>),
       Cls(Alpha \cup Space, 0, Inf), Close(1),
       Cls({","}, 0, 1), Cls(Space, 0, Inf),
       Open(2), Cls(Alpha \cup Space, 1, Inf), Close(2),
       Lit(","), Cls(Space, 0, Inf), Open(3), Lits(<<"NC", "North Carolina">>), Close(3) >>

\* ([A-Za-z\s]+),\s*(NC|North Carolina)
CityRe ==
    << Open(1), Cls(Alpha \cup Space, 1, Inf), Close(1), Lit(","), Cls(Space, 0, Inf),
       Open(2), Lits(<<"NC", "North Carolina">>), Close(2) >>

\* \s+
BlanksRe == << Cls(Space, 1, Inf) >>

\* \s*PDGA\s*(A|B|C|XC)-?[Tt]ier\s*
NameTierRe ==
    << Cls(Space, 0, Inf), Lit("PDGA"), Cls(Space, 0, Inf),
       Open(1), Lits(<<"A", "B", "C", "XC">>), Close(1), Cls({"-"}, 0, 1),
       One({"T", "t"}), Lit("ier"), Cls(Space, 0, Inf) >>

\* \s*[\u00b7\u2022]\s*$: a middle dot or a bullet at the end. The documents of the
\* model use the middle dot only: a TLA+ string cannot hold U+2022.
NameBulletRe == << Cls(Space, 0, Inf), One({"·"}), Cls(Space, 0, Inf), Eol >>

\* re.split(r'(?<=[a-z])(?=[A-Z])', text)[-1]: what follows the last place where a
\* lower-case letter is followed by an upper-case one
LastCamelPart(text) ==
    LET cuts == {i \in 1..(Len(text) - 1) : CharAt(text, i) \in LowerSet /\ CharAt(text, i + 1) \in UpperSet}
    IN  IF cuts = {} THEN text
        ELSE SubSeq(text, (CHOOSE i \in cuts : \A j \in cuts : j <= i) + 1, Len(text))

\* the first ancestor, of at most five, whose text has date info: its level, 5 when
\* none of five has, 0 when the ancestors run out first (parent is None)
RECURSIVE FindParent(_, _, _)
FindParent(doc, i, k) ==
    IF AncestorText(doc, i, k) = None THEN 0
    ELSE IF re_search(HasDateInfoRe, AncestorText(doc, i, k), FALSE).ok THEN k
    ELSE IF k = 5 THEN 5
    ELSE FindParent(doc, i, k + 1)

\* the date token of the parent's text; None when it has none
FindDate(parent_text) ==
    LET listing == re_search(ListingDateRe, parent_text, FALSE)
        simple == re_search(SimpleDateRe, parent_text, FALSE)
    IN  IF listing.ok THEN group(listing, parent_text, 1)
        ELSE IF simple.ok THEN group(simple, parent_text, 1)
        ELSE None

FindCity(parent_text) ==
    LET venue_match == re_search(VenueRe, parent_text, TRUE)
        city_match == re_search(CityRe, parent_text, FALSE)
        city == IF venue_match.ok THEN strip(group(venue_match, parent_text, 2)) \o ", NC"
                ELSE IF city_match.ok
                     THEN strip(LastCamelPart(strip(group(city_match, parent_text, 1)))) \o ", NC"
                ELSE "NC"
    IN  strip(re_sub(BlanksRe, " ", city))

CleanName(name) ==
    strip(re_sub(BlanksRe, " ", re_sub(NameBulletRe, "", re_sub(NameTierRe, " ", name))))

\* the url is new and not skipped: the link gets as far as seen_urls.add(url)
Recorded(url, seen) ==
    /\ url # ""
    /\ url \notin seen
    /\ ~ContainsAny(url, skip_patterns)

\* one pass of the loop body for link i with seen_urls = seen: the record it
\* appends, as a sequence of one, or <<>> when the pass ends in a continue
ParseLink(doc, i, seen) ==
    LET url == doc[i].href
        full_url == IF startswith(url, "/") THEN DGS_BASE_URL \o url ELSE url
        name == doc[i].text
        level == FindParent(doc, i, 1)
        parent_text == AncestorText(doc, i, level)
        date_str == FindDate(parent_text)
        parsed_date == parse_date(date_str)
        city == FindCity(parent_text)
    IN  IF ~Recorded(url, seen) THEN <<>>
        ELSE IF name = "" \/ Len(name) < 5 THEN <<>>
        ELSE IF ContainsAny(lower(name), skip_keywords) THEN <<>>
        ELSE IF level = 0 THEN <<>>
        ELSE IF date_str = None THEN <<>>
        ELSE IF parsed_date = None THEN <<>>
        ELSE << [name |-> CleanName(name),
                 date |-> parsed_date,
                 city |-> city,
                 tier |-> extract_tier(parent_text),
                 url |-> full_url,
                 distance |-> calculate_distance(city),
                 isGVDG |-> is_gvdg_tournament(name),
                 spots |-> extract_spots(parent_text)] >>

\* soup.find_all('a', href=re.compile(...)): the links the loop visits, in document
\* order, each as its position in the document
IsTournamentLink(card) == re_search(TournamentHrefRe, card.href, FALSE).ok

find_all(doc) ==
    LET Matches(i) == IsTournamentLink(doc[i])
    IN  SelectSeq([i \in 1..Len(doc) |-> i], Matches)

(***************************************************************************)
(* validate_tournament, deduplicate_tournaments, filter_future_tournaments, *)
(* sort_tournaments                                                        *)
(***************************************************************************)
required_fields == {"name", "date", "city", "tier", "url", "distance", "isGVDG"}

\* ^\d{4}-\d{2}-\d{2}$
IsoDateRe ==
    << Bol, Cls(Digit, 4, 4), Lit("-"), Cls(Digit, 2, 2), Lit("-"), Cls(Digit, 2, 2), Eol >>

valid_tiers == <<"A", "B", "C", "XC", "League", "Doubles", "Other">>

MaxNameLength == 200

\* <<is_valid, message>>. The records parse_tournaments builds carry every required
\* field with the required type, so the isinstance checks come down to the fields
\* being there.
validate_tournament(t) ==
    IF ~(required_fields \subseteq DOMAIN t) THEN <<FALSE, "Missing field">>
    ELSE IF ~re_match(IsoDateRe, t.date, FALSE).ok THEN <<FALSE, "Invalid date format">>
    ELSE IF ~Contains(t.url, "discgolfscene.com") THEN <<FALSE, "Invalid URL">>
    ELSE IF ~(\E n \in 1..Len(valid_tiers) : valid_tiers[n] = t.tier) THEN <<FALSE, "Invalid tier">>
    ELSE IF Len(t.name) > MaxNameLength THEN <<FALSE, "Name too long">>
    ELSE <<TRUE, "OK">>

\* the loop of deduplicate_tournaments from position i on, with seen as it stands
RECURSIVE DedupFrom(_, _, _)
DedupFrom(ts, i, seen) ==
    IF i > Len(ts) THEN <<>>
    ELSE IF ts[i].url \notin seen THEN <<ts[i]>> \o DedupFrom(ts, i + 1, seen \cup {ts[i].url})
    ELSE DedupFrom(ts, i + 1, seen)

deduplicate_tournaments(ts) == DedupFrom(ts, 1, {})

\* Python orders strings by code point. The strings compared are dates as strftime
\* writes them, digits and "-": the code points 45 to 57.
CodePoints == "-./0123456789"

Ord(c) == 44 + IndexOf(c, CodePoints)

RECURSIVE StrLess(_, _)
StrLess(a, b) ==
    IF b = "" THEN FALSE
    ELSE IF a = "" THEN TRUE
    ELSE IF CharAt(a, 1) = CharAt(b, 1) THEN StrLess(SubSeq(a, 2, Len(a)), SubSeq(b, 2, Len(b)))
    ELSE Ord(CharAt(a, 1)) < Ord(CharAt(b, 1))

\* datetime - timedelta(days=1)
DayBefore(dt) ==
    IF dt.d > 1 THEN [y |-> dt.y, m |-> dt.m, d |-> dt.d - 1]
    ELSE IF dt.m > 1 THEN [y |-> dt.y, m |-> dt.m - 1, d |-> DaysInMonth(dt.y, dt.m - 1)]
    ELSE [y |-> dt.y - 1, m |-> 12, d |-> 31]

days_back == 1

RECURSIVE DaysBefore(_, _)
DaysBefore(dt, n) == IF n = 0 THEN dt ELSE DaysBefore(DayBefore(dt), n - 1)

cutoff_str(now) == strftime(DaysBefore(now, days_back))

\* a variant of the filter's comparison that is strict: t['date'] > cutoff_str
StrictlyAfter(t, cutoff) == StrLess(cutoff, t.date)

NotBefore(t, cutoff) == ~StrLess(t.date, cutoff)

filter_future_tournaments(ts, now) ==
    LET Keep(t) == NotBefore(t, cutoff_str(now))
    IN  SelectSeq(ts, Keep)

\* sorted() is stable: a record goes after every record whose key is not greater
RECURSIVE InsertByDate(_, _)
InsertByDate(done, t) ==
    IF done = <<>> THEN <<t>>
    ELSE IF StrLess(t.date, done[Len(done)].date)
         THEN InsertByDate(SubSeq(done, 1, Len(done) - 1), t) \o <<done[Len(done)]>>
    ELSE done \o <<t>>

RECURSIVE SortFrom(_, _, _)
SortFrom(ts, i, done) ==
    IF i > Len(ts) THEN done ELSE SortFrom(ts, i + 1, InsertByDate(done, ts[i]))

\* a variant of the sort that is not stable: a record goes before the records
\* of its own date
RECURSIVE InsertBeforeTies(_, _)
InsertBeforeTies(done, t) ==
    IF done = <<>> THEN <<t>>
    ELSE IF ~StrLess(done[Len(done)].date, t.date)
         THEN InsertBeforeTies(SubSeq(done, 1, Len(done) - 1), t) \o <<done[Len(done)]>>
    ELSE done \o <<t>>

RECURSIVE UnstableSortFrom(_, _, _)
UnstableSortFrom(ts, i, done) ==
    IF i > Len(ts) THEN done ELSE UnstableSortFrom(ts, i + 1, InsertBeforeTies(done, ts[i]))

sort_tournaments_unstable(ts) == UnstableSortFrom(ts, 1, <<>>)

sort_tournaments(ts) == SortFrom(ts, 1, <<>>)

(***************************************************************************)
(* scripts/scrape_tournaments.py: extract_tournaments                       *)
(***************************************************************************)
NEARBY_CITIES ==
    << "greenville", "winterville", "ayden", "farmville", "grifton",
       "kinston", "new bern", "washington", "williamston", "tarboro",
       "rocky mount", "wilson", "goldsboro", "la grange", "snow hill",
       "jacksonville", "havelock", "morehead city", "richlands", "maysville",
       "robersonville", "bethel", "pinetops", "hookerton", "trenton" >>

\* /tournaments?/[\w_]+_20\d{2}$
DetailHrefRe ==
    << Lit("/tournament"), Cls({"s"}, 0, 1), Lit("/"), Cls(WordChars, 1, Inf),
       Lit("_20"), Cls(Digit, 2, 2), Eol >>

navigation_names == {"tournaments", "north carolina", "register", "results"}

\* \b(Jan|...|Dec)\s+(\d{1,2})(?:-\d{1,2})?\b, IGNORECASE
MonthDayRe ==
    << WordBoundary, Open(1), Lits(MonthAbbr), Close(1), Cls(Space, 1, Inf),
       Open(2), Cls(Digit, 1, 2), Close(2), Opt(<<Lit("-"), Cls(Digit, 1, 2)>>), WordBoundary >>

\* \b([A-Z][a-z]+(?:\s+[A-Z][a-z]+)?),\s*NC\b
LocationRe ==
    << WordBoundary, Open(1), One(UpperSet), Cls(LowerSet, 1, Inf),
       Opt(<<Cls(Space, 1, Inf), One(UpperSet), Cls(LowerSet, 1, Inf)>>), Close(1),
       Lit(","), Cls(Space, 0, Inf), Lit("NC"), WordBoundary >>

\* \b([ABCX]-tier|XC-tier|XB-tier)\b, IGNORECASE
ListingTierRe ==
    << WordBoundary, Open(1),
       Alt(<< <<One({"A", "B", "C", "X"}), Lit("-tier")>>, <<Lit("XC-tier")>>, <<Lit("XB-tier")>> >>),
       Close(1), WordBoundary >>

\* str.capitalize()
capitalize(str) == IF str = "" THEN "" ELSE upper(SubSeq(str, 1, 1)) \o lower(SubSeq(str, 2, Len(str)))

\* the texts of the link's previous siblings, each followed by a blank, in document
\* order; a link wrapped in elements of its own has no siblings
RECURSIVE EachThenBlank(_)
EachThenBlank(pieces) ==
    IF pieces = <<>> THEN "" ELSE strip(Head(pieces)) \o " " \o EachThenBlank(Tail(pieces))

RECURSIVE BlankThenEach(_)
BlankThenEach(pieces) ==
    IF pieces = <<>> THEN "" ELSE " " \o strip(Head(pieces)) \o BlankThenEach(Tail(pieces))

prev_text(card) == IF card.inner > 0 THEN "" ELSE EachThenBlank(card.pre)
next_text(card) == IF card.inner > 0 THEN "" ELSE BlankThenEach(card.post)

\* f"{month} {day}, 2026" of the first month and day in prev_text, '' without one
ListingDate(card) ==
    LET m == re_search(MonthDayRe, prev_text(card), TRUE)
    IN  IF m.ok
        THEN capitalize(SubSeq(group(m, prev_text(card), 1), 1, 3)) \o " "
                 \o group(m, prev_text(card), 2) \o ", 2026"
        ELSE ""

ListingLocation(context) ==
    LET m == re_search(LocationRe, context, FALSE)
    IN  IF m.ok THEN group(m, context, 1) \o ", NC" ELSE ""

ListingTier(context) ==
    LET m == re_search(ListingTierRe, context, TRUE)
    IN  IF m.ok THEN group(m, context, 1) ELSE ""

FullUrl(href) == IF startswith(href, "/") THEN "https://www.discgolfscene.com" \o href ELSE href

\* the link is a detail page seen for the first time: it gets as far as seen.add(url)
Seen(href, seen) ==
    /\ re_search(DetailHrefRe, href, FALSE).ok
    /\ FullUrl(href) \notin seen

is_nearby(check_text) == ContainsAny(check_text, NEARBY_CITIES) \/ Contains(check_text, "gvdg")

\* one pass of the loop of extract_tournaments for link i with seen as it stands:
\* the record it appends, as a sequence of one, or <<>>
ExtractLink(doc, i, seen) ==
    LET card == doc[i]
        url == FullUrl(card.href)
        name == strip(card.text)
        context == prev_text(card) \o " " \o next_text(card)
        location == ListingLocation(context)
    IN  IF ~Seen(card.href, seen) THEN <<>>
        ELSE IF name = "" \/ Len(name) < 5 THEN <<>>
        ELSE IF lower(name) \in navigation_names THEN <<>>
        ELSE IF ~is_nearby(lower(name \o " " \o location \o " " \o url)) THEN <<>>
        ELSE << [date |-> ListingDate(card),
                 name |-> name,
                 location |-> location,
                 tier |-> ListingTier(context),
                 url |-> url] >>

(***************************************************************************)
(* scripts/scrape_tournaments.py: fetch_tournament_details, sort_by_date,   *)
(* update_google_sheet.  A detail page is [h1, text]: the text of its h1    *)
(* (None without one) and the text of the whole page.                       *)
(***************************************************************************)
\* \s*·\s*Disc Golf Scene.*$
TitleSuffixRe ==
    << Cls(Space, 0, Inf), Lit("·"), Cls(Space, 0, Inf), Lit("Disc Golf Scene"),
       NotCls({"\n"}, 0, Inf), Eol >>

\* (?:Mon|...|Sun)(?:-(?:Mon|...|Sun))?,\s+(Jan|...|Dec)\s+(\d{1,2})(?:-\d{1,2})?,\s+(\d{4})
DetailDateRe ==
    << Lits(Weekdays), Opt(<<Lit("-"), Lits(Weekdays)>>), Lit(","), Cls(Space, 1, Inf),
       Open(1), Lits(MonthAbbr), Close(1), Cls(Space, 1, Inf),
       Open(2), Cls(Digit, 1, 2), Close(2), Opt(<<Lit("-"), Cls(Digit, 1, 2)>>),
       Lit(","), Cls(Space, 1, Inf), Open(3), Cls(Digit, 4, 4), Close(3) >>

\* ([A-Z][A-Za-z\s\'\.]+),\s*NC\b
DetailLocationRe ==
    << Open(1), One(UpperSet), Cls(Alpha \cup Space \cup {"'", "."}, 1, Inf), Close(1),
       Lit(","), Cls(Space, 0, Inf), Lit("NC"), WordBoundary >>

\* PDGA\s+([ABCX](?:/[ABCX])?-tier|XC-tier|XB-tier), IGNORECASE
DetailTierRe ==
    << Lit("PDGA"), Cls(Space, 1, Inf), Open(1),
       Alt(<< <<One({"A", "B", "C", "X"}), Opt(<<Lit("/"), One({"A", "B", "C", "X"})>>), Lit("-tier")>>,
              <<Lit("XC-tier")>>, <<Lit("XB-tier")>> >>),
       Close(1) >>

\* str.split(): the words between runs of blanks
RECURSIVE split(_)
split(str) ==
    LET body == lstrip(str)
        word == SubSeq(body, 1, Run(NotCls(Space, 0, Inf), body, 1, FALSE))
    IN  IF body = "" THEN <<>>
        ELSE <<word>> \o split(SubSeq(body, Len(word) + 1, Len(body)))

two_word_endings == {"mount", "bern", "hill", "city", "beach", "point", "creek"}

DetailName(t, page) ==
    LET clean_title == re_sub(TitleSuffixRe, "", strip(page.h1))
    IN  IF page.h1 # None /\ clean_title # "" /\ Len(clean_title) > 3 THEN clean_title ELSE t.name

DetailDate(t, page) ==
    LET m == re_search(DetailDateRe, page.text, FALSE)
    IN  IF m.ok
        THEN group(m, page.text, 1) \o " " \o group(m, page.text, 2) \o ", " \o group(m, page.text, 3)
        ELSE t.date

DetailLocation(t, page) ==
    LET m == re_search(DetailLocationRe, page.text, FALSE)
        loc_text == strip(group(m, page.text, 1))
        words == split(loc_text)
    IN  IF ~m.ok THEN t.location
        ELSE IF Len(words) >= 2
             THEN IF lower(words[Len(words)]) \in two_word_endings
                  THEN words[Len(words) - 1] \o " " \o words[Len(words)] \o ", NC"
                  ELSE words[Len(words)] \o ", NC"
        ELSE loc_text \o ", NC"

DetailTier(t, page) ==
    LET m == re_search(DetailTierRe, page.text, TRUE)
    IN  IF m.ok THEN group(m, page.text, 1) ELSE t.tier

\* the body of the loop of fetch_tournament_details once the page has come with
\* status 200
Detailed(t, page) ==
    [date |-> DetailDate(t, page),
     name |-> DetailName(t, page),
     location |-> DetailLocation(t, page),
     tier |-> DetailTier(t, page),
     url |-> t.url]

\* (Jan|...|Dec)\s+(\d{1,2}),\s*(\d{4})
SortKeyRe ==
    << Open(1), Lits(MonthAbbr), Close(1), Cls(Space, 1, Inf), Open(2), Cls(Digit, 1, 2), Close(2),
       Lit(","), Cls(Space, 0, Inf), Open(3), Cls(Digit, 4, 4), Close(3) >>

get_sort_key(t) ==
    LET m == re_search(SortKeyRe, t.date, FALSE)
    IN  IF m.ok
        THEN << ToInt(group(m, t.date, 3)), MonthNumber(group(m, t.date, 1), MonthAbbr),
                ToInt(group(m, t.date, 2)) >>
        ELSE <<9999, 99, 99>>

\* the order of Python's tuples
KeyLess(a, b) ==
    \/ a[1] < b[1]
    \/ a[1] = b[1] /\ a[2] < b[2]
    \/ a[1] = b[1] /\ a[2] = b[2] /\ a[3] < b[3]

RECURSIVE InsertByKey(_, _)
InsertByKey(done, t) ==
    IF done = <<>> THEN <<t>>
    ELSE IF KeyLess(get_sort_key(t), get_sort_key(done[Len(done)]))
         THEN InsertByKey(SubSeq(done, 1, Len(done) - 1), t) \o <<done[Len(done)]>>
    ELSE done \o <<t>>

RECURSIVE SortByKeyFrom(_, _, _)
SortByKeyFrom(ts, i, done) ==
    IF i > Len(ts) THEN done ELSE SortByKeyFrom(ts, i + 1, InsertByKey(done, ts[i]))

sort_by_date(ts) == SortByKeyFrom(ts, 1, <<>>)

\* the rows update_google_sheet writes under the header
Row(t) == <<t.date, t.name, t.location, t.tier, t.url>>

Rows(ts) == [i \in 1..Len(ts) |-> Row(ts[i])]

(***************************************************************************)
(* Harness of parse_date: a date token is drawn piece by piece, rendered    *)
(* in the listing's format and parsed; the result is parsed once more.      *)
(***************************************************************************)
MinYear == 2026
MaxYear == 2028

TokenWeekdays == {"", "Sat, ", "Fri-Sun, ", "Sat-Sun, "}
TokenMonths == {"Jan", "Feb", "Mar", "Dec", "March", "Foo"}
TokenDays == {"1", "20", "29", "30", "31", "32"}
TokenEnds == {"", "-22", "-Feb 1", "-Xyz 99"}
TokenYears == {Pad(y, 4) : y \in MinYear..MaxYear}

DateTokens == [wd : TokenWeekdays, mon : TokenMonths, day : TokenDays, end : TokenEnds, year : TokenYears]

RenderToken(t) == t.wd \o t.mon \o " " \o t.day \o t.end \o ", " \o t.year

harness == <<arg, ret, again>>
Untouched == [cleared |-> FALSE, rows |-> <<>>]

pipeline == <<script, sheet, today, html, attempt, tournament_links, idx, seen_urls, tournaments, valid_tournaments,
              unique, upcoming, ordered, output, exit_code>>
vars == <<pc, harness, pipeline>>

\* the pipeline's variables while a function harness runs
PipelineIdle ==
    /\ script = None
    /\ sheet = Untouched
    /\ today = NoDate
    /\ html = <<>>
    /\ attempt = 0
    /\ tournament_links = <<>>
    /\ idx = 0
    /\ seen_urls = {}
    /\ tournaments = <<>>
    /\ valid_tournaments = <<>>
    /\ unique = <<>>
    /\ upcoming = <<>>
    /\ ordered = <<>>
    /\ output = <<>>
    /\ exit_code = -1


InitDate ==
    /\ PipelineIdle
    /\ pc = "start"
    /\ arg \in DateTokens
    /\ ret = None
    /\ again = None

CallParseDate ==
    /\ pc = "start"
    /\ ret' = parse_date(RenderToken(arg))
    /\ pc' = "parsed"
    /\ UNCHANGED <<arg, again, pipeline>>

ReparseDate ==
    /\ pc = "parsed"
    /\ ret # None
    /\ again' = parse_date(ret)
    /\ pc' = "reparsed"
    /\ UNCHANGED <<arg, ret, pipeline>>

NextDate == CallParseDate \/ ReparseDate

SpecDate == InitDate /\ [][NextDate]_vars

\* the token names a day of the calendar with a three-letter month, the form
\* parse_tournaments cuts out of the listing
StartsOnCalendarDay(t) ==
    /\ \E i \in 1..Len(MonthAbbr) : MonthAbbr[i] = t.mon
    /\ ToInt(t.day) \in 1..DaysInMonth(ToInt(t.year), MonthNumber(t.mon, MonthAbbr))

\* the first day of the token, as YYYY-MM-DD
StartDate(t) ==
    t.year \o "-" \o Pad(MonthNumber(t.mon, MonthAbbr), 2) \o "-" \o Pad(ToInt(t.day), 2)

C5_Idempotent == pc = "reparsed" => again = ret

(***************************************************************************)
(* Harness of extract_tier: a text of up to MaxFragments fragments          *)
(***************************************************************************)
MaxFragments == 3

TierFragments == {"PDGA A-tier", "b-tier", "C-tier", "C/B-tier", "XC-Tier", "League",
                  "DOUBLES", "Teams", "Open"}

TierTexts == UNION {[1..n -> TierFragments] : n \in 0..MaxFragments}

InitTier ==
    /\ PipelineIdle
    /\ pc = "start"
    /\ arg \in TierTexts
    /\ ret = None
    /\ again = None

CallExtractTier ==
    /\ pc = "start"
    /\ ret' = extract_tier(JoinWith(arg, " "))
    /\ pc' = "called"
    /\ UNCHANGED <<arg, again, pipeline>>

NextTier == CallExtractTier

SpecTier == InitTier /\ [][NextTier]_vars

\* the keywords of the tier scan, highest priority first, each with its tier
TierPriority ==
    << <<"a-tier", "A">>, <<"b-tier", "B">>, <<"c-tier", "C">>, <<"c/b-tier", "C">>,
       <<"xc-tier", "XC">>, <<"league", "League">>, <<"doubles", "Doubles">>,
       <<"teams", "Teams">> >>

\* the tier of the first keyword of TierPriority that occurs in the text, whatever
\* its case; "Other" when none occurs
HighestTier(text) ==
    LET hits == {i \in 1..Len(TierPriority) : Contains(lower(text), TierPriority[i][1])}
    IN  IF hits = {} THEN "Other"
        ELSE TierPriority[CHOOSE i \in hits : \A j \in hits : i <= j][2]

\* C3: extract_tier returns the tier of the highest-priority keyword that occurs in
\* the text as a case-insensitive substring (A-tier > B-tier > C-tier or C/B-tier >
\* XC-tier > League > Doubles > Teams), and "Other" when none occurs
C3_HighestPriorityTier == pc = "called" => ret = HighestTier(JoinWith(arg, " "))

(***************************************************************************)
(* Harness of calculate_distance: city strings put together from a prefix,  *)
(* a place name and a suffix                                                *)
(***************************************************************************)
CityPrefixes == {"", "Port ", "Cary ", "New "}
CityNames == {known_distances[i][1] : i \in 1..Len(known_distances)}
                 \cup {"Greenville", "Farmville", "Lumberton", "Bern", "Wilsonville", ""}
CitySuffixes == {"", "NC", ", NC"}

Cities == [pre : CityPrefixes, name : CityNames, suf : CitySuffixes]

RenderCity(c) == c.pre \o c.name \o c.suf

InitDist ==
    /\ PipelineIdle
    /\ pc = "start"
    /\ arg \in Cities
    /\ ret = 0
    /\ again = None

CallCalculateDistance ==
    /\ pc = "start"
    /\ ret' = calculate_distance(RenderCity(arg))
    /\ pc' = "called"
    /\ UNCHANGED <<arg, again, pipeline>>

NextDist == CallCalculateDistance

SpecDist == InitDist /\ [][NextDist]_vars

\* CONFIG["distance"], the search radius in miles
search_radius == 60

\* C7: calculate_distance returns the mileage of the first entry of the table, in
\* table order, whose name occurs in the lowercased city, and exactly 30, the
\* midpoint of the search radius, when none does ("Lumberton, NC", "NC", "");
\* the result is a non-negative integer
C7_FirstHitOrFallback ==
    pc = "called" =>
        LET city_lower == lower(RenderCity(arg))
            hits == {i \in 1..Len(known_distances) : Contains(city_lower, known_distances[i][1])}
        IN  /\ ret \in Nat
            /\ hits # {} => ret = known_distances[CHOOSE i \in hits : \A j \in hits : i <= j][2]
            /\ hits = {} => ret = 30 /\ ret = search_radius \div 2
            /\ RenderCity(arg) \in {"Lumberton, NC", "NC", ""} => ret = 30

\* C7: a city with two entries of the table in it has been looked up and has got
\* the mileage of the first
C7_TwoHitsLookedUp ==
    /\ pc = "called"
    /\ RenderCity(arg) = "Cary Greenville, NC"
    /\ ret = 0

(***************************************************************************)
(* main of dgs-scraper.py: fetch, parse, validate, deduplicate, filter,     *)
(* sort, write                                                             *)
(***************************************************************************)
retry_attempts == 3

\* the cards a served document is made of
Catalogue ==
    << [href |-> "/tournaments/Hangover_Open_2026",
        text |-> "Hangover Open · PDGA B-tier",
        pre |-> <<>>,
        post |-> <<"Sat, Jan 24, 2026 Farmville Community Park Farmville, NC 40/72">>,
        inner |-> 0],
       [href |-> "/tournaments/Hangover_Open_2026/",
        text |-> "Hangover Open · PDGA B-tier",
        pre |-> <<"Sat, Jan 24, 2026">>,
        post |-> <<"Farmville Municipal DGC", "Farmville, NC", "40/72">>,
        inner |-> 0],
       [href |-> "/tournaments/Ayden_Founders_Day_2026",
        text |-> "Ayden Founders Day",
        pre |-> <<"Sat, Jan 24, 2026">>,
        post |-> <<"Ayden District Park", "Ayden, NC", "12 / 50">>,
        inner |-> 1],
       [href |-> "/tournaments/Jam_2026",
        text |-> "Jam PDGA C-tier",
        pre |-> <<"Sun, Feb 1, 2026">>,
        post |-> <<"Kinston, NC">>,
        inner |-> 0],
       [href |-> "https://dgs.example.org/discgolfscene.com/tournaments/Mirror_Open_2026",
        text |-> "Mirror Open Doubles",
        pre |-> <<"Sat, Feb 7, 2026">>,
        post |-> <<"Lumberton, NC">>,
        inner |-> 0],
       [href |-> "/tournaments/Mystery_Open_2026",
        text |-> "Mystery Open",
        pre |-> <<>>,
        post |-> <<"Wilson, NC">>,
        inner |-> 0],
       [href |-> "/tournaments/New_Year_Fling_2026",
        text |-> "New Year Fling",
        pre |-> <<"Sat, Jan 3, 2026">>,
        post |-> <<"Greenville, NC">>,
        inner |-> 0],
       [href |-> "/tournaments/Winter_Classic_2026",
        text |-> "Winter Classic · PDGA A-tier",
        pre |-> <<"Sat-Sun, Jan 31-Feb 1, 2026">>,
        post |-> <<"New Bern, NC">>,
        inner |-> 2],
       [href |-> "https://udisc.example.com/tournaments/Elsewhere_Open_2026",
        text |-> "Elsewhere Open",
        pre |-> <<"Sun, Jan 25, 2026">>,
        post |-> <<"Raleigh, NC">>,
        inner |-> 0],
       [href |-> "/tournaments/search",
        text |-> "Search tournaments",
        pre |-> <<>>,
        post |-> <<>>,
        inner |-> 0] >>

\* the cards of the listing scripts/scrape_tournaments.py reads
ListingCards ==
    { [href |-> "/tournaments/Hangover_Open_2026",
       text |-> "Hangover Open",
       pre |-> <<"Sat, Jan 24">>,
       post |-> <<"Farmville, NC", "B-tier">>,
       inner |-> 0],
      [href |-> "/tournaments/Ayden_Founders_Day_2026",
       text |-> "Ayden Founders Day",
       pre |-> <<"Sat, Jan 24">>,
       post |-> <<"Ayden, NC">>,
       inner |-> 1],
      [href |-> "/tournament/Kinston_Ice_Bowl_2027",
       text |-> "Kinston Ice Bowl",
       pre |-> <<"jan 9-10">>,
       post |-> <<"Kinston, NC", "PDGA XC-tier">>,
       inner |-> 0],
      [href |-> "/tournaments/Charlotte_Open_2026",
       text |-> "Charlotte Open",
       pre |-> <<"Feb 7">>,
       post |-> <<"Charlotte, NC">>,
       inner |-> 0],
      [href |-> "/tournaments/North_Carolina",
       text |-> "North Carolina",
       pre |-> <<>>,
       post |-> <<>>,
       inner |-> 0],
      [href |-> "/tournaments/Hangover_Open_2026",
       text |-> "",
       pre |-> <<>>,
       post |-> <<>>,
       inner |-> 0] }

NotFound == [h1 |-> None, text |-> "Page not found"]

\* the detail page the site serves under a url
DetailPage(url) ==
    CASE url = "https://www.discgolfscene.com/tournaments/Hangover_Open_2026" ->
            [h1 |-> "Hangover Open · Disc Golf Scene",
             text |-> "Hangover Open · Disc Golf Scene Sat, Jan 24, 2026 PDGA B-tier Farmville, NC"]
      [] url = "https://www.discgolfscene.com/tournaments/Ayden_Founders_Day_2026" ->
            [h1 |-> "Ayden Founders Day",
             text |-> "Ayden Founders Day Sat-Sun, Jan 24-25, 2026 District Park Ayden, NC"]
      [] url = "https://www.discgolfscene.com/tournament/Kinston_Ice_Bowl_2027" ->
            [h1 |-> None, text |-> "Registration opens soon"]
      [] OTHER -> NotFound

MaxLinks == 2

Listings == UNION {[1..n -> ListingCards] : n \in 0..MaxLinks}

Documents == UNION {[1..n -> {Catalogue[c] : c \in 1..Len(Catalogue)}] : n \in 0..MaxLinks}

\* a link of the site's navigation to the listing of a state
StateLink ==
    [href |-> "/tournaments/NC", text |-> "North Carolina", pre |-> <<>>, post |-> <<>>, inner |-> 0]

\* a card whose link text carries the date, without a weekday, the link being n
\* elements deep inside the card
Teaser(n) ==
    [href |-> "/tournaments/Frozen_Bowl_2026", text |-> "Frozen Bowl Jan 10, 2026",
     pre |-> <<>>, post |-> <<"Wilson, NC">>, inner |-> n]

\* the picture of a card, a link of its own to the page of the event, without text
Thumbnail ==
    [href |-> "/tournaments/Hangover_Open_2026", text |-> "", pre |-> <<>>, post |-> <<>>, inner |-> 0]

\* further documents, each a page layout of its own
Scenarios ==
    { <<StateLink, Catalogue[1]>>,
      <<Thumbnail, Catalogue[1]>>,
      <<Teaser(0)>>,
      <<Teaser(1)>> }

Todays == {[y |-> 2026, m |-> 1, d |-> 4], [y |-> 2026, m |-> 1, d |-> 25], [y |-> 2026, m |-> 2, d |-> 1]}

HarnessIdle ==
    /\ arg = None
    /\ ret = None
    /\ again = None

Init ==
    /\ HarnessIdle
    /\ pc = "fetch"
    /\ script \in {"dgs-scraper.py", "scrape_tournaments.py"}
    /\ sheet = Untouched
    /\ today = NoDate
    /\ html \in (IF script = "dgs-scraper.py" THEN Documents \cup Scenarios ELSE Listings)
    /\ attempt = 1
    /\ tournament_links = <<>>
    /\ idx = 0
    /\ seen_urls = {}
    /\ tournaments = <<>>
    /\ valid_tournaments = <<>>
    /\ unique = <<>>
    /\ upcoming = <<>>
    /\ ordered = <<>>
    /\ output = <<>>
    /\ exit_code = -1

\* fetch_page: requests.get returns the document
FetchOk ==
    /\ script = "dgs-scraper.py"
    /\ pc = "fetch"
    /\ pc' = "parse"
    /\ attempt' = 0
    /\ UNCHANGED <<harness, script, sheet, today, html, tournament_links, idx, seen_urls, tournaments,
                   valid_tournaments, unique, upcoming, ordered, output, exit_code>>

\* fetch_page without the test of line 117: every RequestException is retried
FetchRetryAlways ==
    /\ script = "dgs-scraper.py"
    /\ pc = "fetch"
    /\ attempt' = attempt + 1
    /\ UNCHANGED <<pc, harness, script, sheet, today, html, tournament_links, idx, seen_urls, tournaments,
                   valid_tournaments, unique, upcoming, ordered, output, exit_code>>

\* fetch_page: a RequestException with attempts left: sleep, then the next attempt
FetchRetry ==
    /\ script = "dgs-scraper.py"
    /\ pc = "fetch"
    /\ attempt < retry_attempts
    /\ attempt' = attempt + 1
    /\ UNCHANGED <<pc, harness, script, sheet, today, html, tournament_links, idx, seen_urls, tournaments,
                   valid_tournaments, unique, upcoming, ordered, output, exit_code>>

\* fetch_page: a RequestException on the last attempt is raised; main exits 1
FetchFail ==
    /\ script = "dgs-scraper.py"
    /\ pc = "fetch"
    /\ attempt >= retry_attempts
    /\ pc' = "exit"
    /\ exit_code' = 1
    /\ UNCHANGED <<harness, script, sheet, today, html, attempt, tournament_links, idx, seen_urls,
                   tournaments, valid_tournaments, unique, upcoming, ordered, output>>

\* parse_tournaments up to its loop: the links of the document
ParseStart ==
    /\ pc = "parse"
    /\ tournament_links' = find_all(html)
    /\ tournaments' = <<>>
    /\ seen_urls' = {}
    /\ idx' = 1
    /\ pc' = "links"
    /\ UNCHANGED <<harness, script, sheet, today, html, attempt, valid_tournaments, unique, upcoming,
                   ordered, output, exit_code>>

\* parse_tournaments: one pass of the loop over tournament_links
ParseNext ==
    /\ pc = "links"
    /\ idx <= Len(tournament_links)
    /\ tournaments' = tournaments \o ParseLink(html, tournament_links[idx], seen_urls)
    /\ seen_urls' = IF Recorded(html[tournament_links[idx]].href, seen_urls)
                    THEN seen_urls \cup {html[tournament_links[idx]].href}
                    ELSE seen_urls
    /\ idx' = idx + 1
    /\ UNCHANGED <<pc, harness, script, sheet, today, html, attempt, tournament_links, valid_tournaments,
                   unique, upcoming, ordered, output, exit_code>>

\* parse_tournaments returns; main's validation loop starts
ParseDone ==
    /\ pc = "links"
    /\ idx > Len(tournament_links)
    /\ pc' = "validate"
    /\ idx' = 1
    /\ UNCHANGED <<harness, script, sheet, today, html, attempt, tournament_links, seen_urls, tournaments,
                   valid_tournaments, unique, upcoming, ordered, output, exit_code>>

\* main's validation loop: one record
ValidateNext ==
    /\ pc = "validate"
    /\ idx <= Len(tournaments)
    /\ valid_tournaments' = IF validate_tournament(tournaments[idx])[1]
                            THEN Append(valid_tournaments, tournaments[idx])
                            ELSE valid_tournaments
    /\ idx' = idx + 1
    /\ UNCHANGED <<pc, harness, script, sheet, today, html, attempt, tournament_links, seen_urls,
                   tournaments, unique, upcoming, ordered, output, exit_code>>

ValidateDone ==
    /\ pc = "validate"
    /\ idx > Len(tournaments)
    /\ pc' = "deduplicate"
    /\ UNCHANGED <<harness, pipeline>>

Deduplicate ==
    /\ pc = "deduplicate"
    /\ unique' = deduplicate_tournaments(valid_tournaments)
    /\ pc' = "filter"
    /\ UNCHANGED <<harness, script, sheet, today, html, attempt, tournament_links, idx, seen_urls,
                   tournaments, valid_tournaments, upcoming, ordered, output, exit_code>>

\* filter_future_tournaments reads the clock
Filter ==
    /\ pc = "filter"
    /\ \E now \in Todays :
          /\ today' = now
          /\ upcoming' = filter_future_tournaments(unique, now)
    /\ pc' = "sort"
    /\ UNCHANGED <<harness, script, sheet, html, attempt, tournament_links, idx, seen_urls, tournaments,
                   valid_tournaments, unique, ordered, output, exit_code>>

Sort ==
    /\ pc = "sort"
    /\ ordered' = sort_tournaments(upcoming)
    /\ pc' = "write"
    /\ UNCHANGED <<harness, script, sheet, today, html, attempt, tournament_links, idx, seen_urls,
                   tournaments, valid_tournaments, unique, upcoming, output, exit_code>>

\* json.dump of the output document; main returns 0
Write ==
    /\ pc = "write"
    /\ output' = ordered
    /\ pc' = "exit"
    /\ exit_code' = 0
    /\ UNCHANGED <<harness, script, sheet, today, html, attempt, tournament_links, idx, seen_urls,
                   tournaments, valid_tournaments, unique, upcoming, ordered>>

\* open(output_file, 'w') or json.dump raises: nothing catches it, the interpreter
\* prints the traceback and the process ends with status 1
WriteFail ==
    /\ pc = "write"
    /\ pc' = "exit"
    /\ exit_code' = 1
    /\ UNCHANGED <<harness, script, sheet, today, html, attempt, tournament_links, idx, seen_urls,
                   tournaments, valid_tournaments, unique, upcoming, ordered, output>>

(***************************************************************************)
(* main of scripts/scrape_tournaments.py: fetch, extract, details, sort,    *)
(* update the sheet                                                        *)
(***************************************************************************)
\* fetch_page: the one request returns the document
SheetFetchOk ==
    /\ script = "scrape_tournaments.py"
    /\ pc = "fetch"
    /\ pc' = "extract"
    /\ UNCHANGED <<harness, script, sheet, today, html, attempt, tournament_links, idx, seen_urls,
                   tournaments, valid_tournaments, unique, upcoming, ordered, output, exit_code>>

\* fetch_page raises (the request, or raise_for_status): main prints the error and
\* returns 1
SheetFetchFail ==
    /\ script = "scrape_tournaments.py"
    /\ pc = "fetch"
    /\ pc' = "exit"
    /\ exit_code' = 1
    /\ UNCHANGED <<harness, script, sheet, today, html, attempt, tournament_links, idx, seen_urls,
                   tournaments, valid_tournaments, unique, upcoming, ordered, output>>

\* extract_tournaments up to its loop: soup.find_all('a', href=True)
ExtractStart ==
    /\ pc = "extract"
    /\ tournament_links' = [i \in 1..Len(html) |-> i]
    /\ tournaments' = <<>>
    /\ seen_urls' = {}
    /\ idx' = 1
    /\ pc' = "hrefs"
    /\ UNCHANGED <<harness, script, sheet, today, html, attempt, valid_tournaments, unique,
                   upcoming, ordered, output, exit_code>>

\* extract_tournaments: one pass of the loop over the links
ExtractNext ==
    /\ pc = "hrefs"
    /\ idx <= Len(tournament_links)
    /\ tournaments' = tournaments \o ExtractLink(html, tournament_links[idx], seen_urls)
    /\ seen_urls' = IF Seen(html[tournament_links[idx]].href, seen_urls)
                    THEN seen_urls \cup {FullUrl(html[tournament_links[idx]].href)}
                    ELSE seen_urls
    /\ idx' = idx + 1
    /\ UNCHANGED <<pc, harness, script, sheet, today, html, attempt, tournament_links,
                   valid_tournaments, unique, upcoming, ordered, output, exit_code>>

\* extract_tournaments returns: main goes on to the details, or with no tournament
\* straight to update_google_sheet([])
ExtractDone ==
    /\ pc = "hrefs"
    /\ idx > Len(tournament_links)
    /\ pc' = IF tournaments # <<>> THEN "details" ELSE "update"
    /\ idx' = 1
    /\ UNCHANGED <<harness, script, sheet, today, html, attempt, tournament_links, seen_urls,
                   tournaments, valid_tournaments, unique, upcoming, ordered, output, exit_code>>

\* fetch_tournament_details: one tournament. The request for its page fails or
\* comes with another status than 200, and the tournament stays as it is; or the
\* page comes and its fields go into the tournament.
DetailsNext ==
    /\ pc = "details"
    /\ idx <= Len(tournaments)
    /\ \E served \in BOOLEAN :
          tournaments' = IF served
                         THEN [tournaments EXCEPT ![idx] = Detailed(@, DetailPage(@.url))]
                         ELSE tournaments
    /\ idx' = idx + 1
    /\ UNCHANGED <<pc, harness, script, sheet, today, html, attempt, tournament_links, seen_urls,
                   valid_tournaments, unique, upcoming, ordered, output, exit_code>>

DetailsDone ==
    /\ pc = "details"
    /\ idx > Len(tournaments)
    /\ pc' = "sort_by_date"
    /\ UNCHANGED <<harness, pipeline>>

SortByDate ==
    /\ pc = "sort_by_date"
    /\ ordered' = sort_by_date(tournaments)
    /\ pc' = "update"
    /\ UNCHANGED <<harness, script, sheet, today, html, attempt, tournament_links, idx, seen_urls,
                   tournaments, valid_tournaments, unique, upcoming, output, exit_code>>

\* update_google_sheet: the sheet is cleared, the header and the rows are written;
\* main returns 0
UpdateOk ==
    /\ pc = "update"
    /\ sheet' = [cleared |-> TRUE, rows |-> Rows(ordered)]
    /\ pc' = "exit"
    /\ exit_code' = 0
    /\ UNCHANGED <<harness, script, today, html, attempt, tournament_links, idx, seen_urls,
                   tournaments, valid_tournaments, unique, upcoming, ordered, output>>

\* update_google_sheet returns False before it has touched the sheet (no
\* credentials, credentials that are no JSON, an error on the way to the sheet);
\* main does not look at the result and returns 0
UpdateRefused ==
    /\ pc = "update"
    /\ pc' = "exit"
    /\ exit_code' = 0
    /\ UNCHANGED <<harness, script, sheet, today, html, attempt, tournament_links, idx, seen_urls,
                   tournaments, valid_tournaments, unique, upcoming, ordered, output>>

\* update_google_sheet returns False on an error after sheet.clear(): the sheet is
\* left without rows; main returns 0
UpdateBroken ==
    /\ pc = "update"
    /\ sheet' = [cleared |-> TRUE, rows |-> <<>>]
    /\ pc' = "exit"
    /\ exit_code' = 0
    /\ UNCHANGED <<harness, script, today, html, attempt, tournament_links, idx, seen_urls,
                   tournaments, valid_tournaments, unique, upcoming, ordered, output>>

Next ==
    \/ FetchOk \/ FetchRetry \/ FetchFail
    \/ ParseStart \/ ParseNext \/ ParseDone
    \/ ValidateNext \/ ValidateDone
    \/ Deduplicate \/ Filter \/ Sort \/ Write \/ WriteFail
    \/ SheetFetchOk \/ SheetFetchFail
    \/ ExtractStart \/ ExtractNext \/ ExtractDone
    \/ DetailsNext \/ DetailsDone \/ SortByDate
    \/ UpdateOk \/ UpdateRefused \/ UpdateBroken

Spec == Init /\ [][Next]_vars

(***************************************************************************)
(* Properties of the JSON pipeline                                          *)
(***************************************************************************)
Finished == script = "dgs-scraper.py" /\ pc = "exit" /\ exit_code = 0

endswith(str, suffix) ==
    Len(suffix) <= Len(str) /\ SubSeq(str, Len(str) - Len(suffix) + 1, Len(str)) = suffix

\* the text before the first occurrence of a character, the whole text without one
Before(str, c) ==
    IF \E i \in 1..Len(str) : CharAt(str, i) = c
    THEN SubSeq(str, 1, (CHOOSE i \in 1..Len(str) :
                            CharAt(str, i) = c /\ \A j \in 1..(i - 1) : CharAt(str, j) # c) - 1)
    ELSE str

\* the host of an absolute http(s) URL, "" of any other text
Host(url) ==
    IF startswith(url, "https://") THEN Before(Before(SubSeq(url, 9, Len(url)), "/"), "?")
    ELSE IF startswith(url, "http://") THEN Before(Before(SubSeq(url, 8, Len(url)), "/"), "?")
    ELSE ""

SourceDomain == "discgolfscene.com"

InSourceDomain(host) == host = SourceDomain \/ endswith(host, "." \o SourceDomain)

SchemaTiers == {"A", "B", "C", "XC", "League", "Doubles", "Teams", "Other"}

SchemaOk(t) ==
    /\ Len(t.date) = 10
    /\ \A i \in 1..10 : IF i \in {5, 8} THEN CharAt(t.date, i) = "-" ELSE CharAt(t.date, i) \in Digit
    /\ InSourceDomain(Host(t.url))
    /\ t.tier \in SchemaTiers
    /\ Len(t.name) >= 5 /\ Len(t.name) <= 200
    /\ t.distance \in Nat
    /\ t.isGVDG \in BOOLEAN

\* C1: every record of the output satisfies the schema: the date is YYYY-MM-DD, the
\* url is absolute with a host of discgolfscene.com, the tier is one of the eight
\* tiers, the name has 5 to 200 characters, the distance is a non-negative integer
\* and isGVDG is a boolean
C1_OutputSchema == Finished => \A i \in 1..Len(output) : SchemaOk(output[i])

\* the url without its query string and without a trailing slash
Canonical(url) ==
    LET path == Before(url, "?")
    IN  IF endswith(path, "/") THEN SubSeq(path, 1, Len(path) - 1) ELSE path

\* C2: of the accepted, non-past records whose urls are the same once the query
\* string and a trailing slash are stripped, exactly one is in the output, and it is
\* the first of them in extraction order
C2_OnePerCanonicalUrl ==
    Finished =>
        /\ \A i, j \in 1..Len(output) :
              i < j => Canonical(output[i].url) # Canonical(output[j].url)
        /\ \A i \in 1..Len(output) : \E k \in 1..Len(valid_tournaments) :
              /\ valid_tournaments[k] = output[i]
              /\ \A l \in 1..(k - 1) :
                    Canonical(valid_tournaments[l].url) # Canonical(output[i].url)

\* C8: the one link "Hangover Open · PDGA B-tier" in the context "Sat, Jan 24, 2026
\* Farmville Community Park Farmville, NC 40/72" gives the record with name
\* "Hangover Open", date "2026-01-24", city "Farmville, NC", tier "B", distance 10,
\* isGVDG true and spots "40/72"
C8_HangoverRecord ==
    /\ html = <<Catalogue[1]>>
    /\ pc \in {"validate", "deduplicate", "filter", "sort", "write", "exit"}
    => /\ Len(tournaments) = 1
       /\ tournaments[1].name = "Hangover Open"
       /\ tournaments[1].date = "2026-01-24"
       /\ tournaments[1].city = "Farmville, NC"
       /\ tournaments[1].tier = "B"
       /\ tournaments[1].distance = 10
       /\ tournaments[1].isGVDG = TRUE
       /\ tournaments[1].spots = "40/72"

\* date.toordinal(): the days from 0001-01-01 on
RECURSIVE DaysBeforeMonth(_, _)
DaysBeforeMonth(y, m) == IF m = 1 THEN 0 ELSE DaysBeforeMonth(y, m - 1) + DaysInMonth(y, m - 1)

Ordinal(dt) ==
    365 * (dt.y - 1) + ((dt.y - 1) \div 4) - ((dt.y - 1) \div 100) + ((dt.y - 1) \div 400)
        + DaysBeforeMonth(dt.y, dt.m) + dt.d

\* the day a YYYY-MM-DD string names
DateOf(iso) ==
    [y |-> ToInt(SubSeq(iso, 1, 4)), m |-> ToInt(SubSeq(iso, 6, 7)), d |-> ToInt(SubSeq(iso, 9, 10))]

\* the record's day is today - 1 day or later
Recent(t) == Ordinal(DateOf(t.date)) >= Ordinal(today) - 1

\* C9: the filter keeps exactly the records whose date is not earlier than the day
\* before today, each as it was: no older record is in the output and every
\* deduplicated record of that day or later is
C9_FilterKeepsRecent ==
    /\ pc \in {"sort", "write"} \/ Finished => upcoming = SelectSeq(unique, Recent)
    /\ Finished =>
          {output[i] : i \in 1..Len(output)}
              = {unique[i] : i \in {k \in 1..Len(unique) : Recent(unique[k])}}

\* C9: a run has ended in which the filter dropped a record and kept one of the day
\* before today
C9_DroppedAndKept ==
    /\ Finished
    /\ Len(output) < Len(unique)
    /\ \E i \in 1..Len(output) : Ordinal(DateOf(output[i].date)) = Ordinal(today) - 1

\* scripts/scrape_tournaments.py has ended and has written rows to the sheet
SheetWritten == script = "scrape_tournaments.py" /\ pc = "exit" /\ sheet.cleared

\* the text of the whole page, and of one card
PageText(doc) == JoinWith(PagePieces(doc), " ")
CardText(card) == JoinWith(CardPieces(card), " ")

\* C6: a candidate without a date token in its context is in no output: every
\* record of the JSON output has a date, read from a page that shows one, and every
\* row of the sheet has a date that is written in the listing next to its link or
\* on its detail page, never an empty or a made-up one
C6_NoDatelessOutput ==
    /\ Finished =>
          \A i \in 1..Len(output) :
              /\ output[i].date \notin {"", None}
              /\ re_search(SimpleDateRe, PageText(html), FALSE).ok
    /\ SheetWritten =>
          \A i \in 1..Len(sheet.rows) :
              /\ sheet.rows[i][1] # ""
              /\ \E k \in 1..Len(html) :
                    /\ FullUrl(html[k].href) = sheet.rows[i][5]
                    /\ \/ Contains(CardText(html[k]), sheet.rows[i][1])
                       \/ Contains(DetailPage(sheet.rows[i][5]).text, sheet.rows[i][1])

\* the records of ts of one date, in their order
OfDate(ts, date) ==
    LET OnDate(t) == t.date = date
    IN  SelectSeq(ts, OnDate)

\* the extracted records that are in the output, in extraction order
Retained ==
    LET InOutput(t) == \E i \in 1..Len(output) : output[i] = t
    IN  SelectSeq(tournaments, InOutput)

\* the day a date of the sheet, "Jan 24, 2026", names
SheetDay(date) ==
    [y |-> ToInt(SubSeq(date, Len(date) - 3, Len(date))),
     m |-> MonthNumber(SubSeq(date, 1, 3), MonthAbbr),
     d |-> ToInt(Before(SubSeq(date, 5, Len(date)), ","))]

\* C10: the output is in ascending order of date; records of one date are in the
\* order they were extracted in; the sort adds, removes and changes no record.
\* For the sheet: the tournaments are in ascending order of their days, those
\* without a date last, and the rows written are these, in this order.
C10_SortedStable ==
    /\ script = "scrape_tournaments.py" /\ pc \in {"update", "exit"} =>
          /\ \A i, j \in 1..Len(ordered) :
                i < j =>
                    /\ ordered[i].date = "" => ordered[j].date = ""
                    /\ ordered[i].date # "" /\ ordered[j].date # "" =>
                          Ordinal(SheetDay(ordered[i].date)) <= Ordinal(SheetDay(ordered[j].date))
          /\ Len(ordered) = Len(tournaments)
          /\ \A i \in 1..Len(tournaments) :
                OfDate(ordered, tournaments[i].date) = OfDate(tournaments, tournaments[i].date)
          /\ SheetWritten /\ sheet.rows # <<>> =>
                sheet.rows = [i \in 1..Len(ordered) |->
                            <<ordered[i].date, ordered[i].name, ordered[i].location,
                              ordered[i].tier, ordered[i].url>>]
    /\ pc = "write" \/ Finished =>
          /\ \A i, j \in 1..Len(ordered) :
                i < j => Ordinal(DateOf(ordered[i].date)) <= Ordinal(DateOf(ordered[j].date))
          /\ Len(ordered) = Len(upcoming)
          /\ \A i \in 1..Len(upcoming) :
                OfDate(ordered, upcoming[i].date) = OfDate(upcoming, upcoming[i].date)
    /\ Finished =>
          /\ output = ordered
          /\ \A i \in 1..Len(output) :
                OfDate(output, output[i].date) = OfDate(Retained, output[i].date)

\* C10: a run has ended with two records of one date in the output
C10_TieInOutput ==
    /\ Finished
    /\ Len(output) = 2
    /\ output[1].date = output[2].date
    /\ output[1] # output[2]

(***************************************************************************)
(* Properties of the fetch                                                 *)
(***************************************************************************)
\* the words of a run that has produced no artifact: no JSON document, the sheet
\* neither cleared nor written
NoArtifact == output = <<>> /\ sheet = Untouched

\* the step is a new attempt of fetch_page after a failed one
Retried == pc = "fetch" /\ pc' = "fetch" /\ attempt' # attempt

\* the step returns the document to main, which goes on with it
Fetched == pc = "fetch" /\ pc' \in {"parse", "extract"}

\* the step ends the run from within the fetch
Aborted == pc = "fetch" /\ pc' = "exit"

FetchStep ==
    /\ attempt \in 0..retry_attempts
    /\ Retried => attempt < retry_attempts /\ attempt' = attempt + 1
    /\ Fetched => html' = html /\ exit_code' = -1
    /\ Aborted => /\ script = "dgs-scraper.py" => attempt = retry_attempts
                  /\ exit_code' \notin {0, -1}
                  /\ NoArtifact'
    /\ pc = "fetch" => pc' \in {"fetch", "parse", "extract", "exit"}

\* C11: the fetch makes at most retry_attempts attempts, each retry being the next
\* attempt after a failed one, so that it ends after at most retry_attempts steps;
\* a successful attempt hands the unchanged document to the pipeline; and when the
\* last attempt fails the run ends with a non-zero exit status and no artifact.
C11_BoundedRetry == [][FetchStep]_vars

\* C11 witness: a run of dgs-scraper.py that ended after retry_attempts failed attempts
C11_RetriesExhausted ==
    /\ script = "dgs-scraper.py"
    /\ pc = "exit"
    /\ attempt = retry_attempts
    /\ exit_code = 1
    /\ NoArtifact

(***************************************************************************)
(* Properties of the output step                                           *)
(***************************************************************************)
\* the run is over and the process reported success
CompletedNormally == pc = "exit" /\ exit_code = 0

\* the artifact of the run holds the records main handed to the output step
ArtifactWritten ==
    IF script = "dgs-scraper.py"
    THEN output = ordered
    ELSE sheet = [cleared |-> TRUE, rows |-> Rows(ordered)]

\* C12: a run that completes normally (exit status 0) has written its artifact:
\* the JSON document holds the sorted records, or the sheet was cleared and holds
\* their rows; a run that could not write it does not end with status 0.
C12_OutputFailureFatal == CompletedNormally => ArtifactWritten

(***************************************************************************)
(* Properties of the order of the stages                                   *)
(***************************************************************************)
\* the records the validation loop of main lets through
Accepted(ts) == SelectSeq(ts, LAMBDA t : validate_tournament(t)[1])

Among(t, ts) == \E n \in 1..Len(ts) : ts[n] = t

\* the record was accepted by the validation, kept by the deduplication, kept by the
\* temporal filter and placed by the sort
PassedStages(t) ==
    /\ Among(t, valid_tournaments)
    /\ Among(t, unique)
    /\ Among(t, upcoming)
    /\ Among(t, ordered)

\* C13: what is handed to an output went through the stages in their order: the JSON
\* document is the sort of the temporal filter of the deduplication of the records
\* the validation accepted among the parsed candidates (so every candidate is
\* rejected, dropped or output), and every row of the sheet is the row of a record
\* that passed validation, deduplication, the temporal filter and the sort.
C13_StagesInOrder ==
    /\ Finished =>
          /\ valid_tournaments = Accepted(tournaments)
          /\ unique = deduplicate_tournaments(valid_tournaments)
          /\ upcoming = filter_future_tournaments(unique, today)
          /\ ordered = sort_tournaments(upcoming)
          /\ output = ordered
    /\ SheetWritten =>
          \A i \in 1..Len(sheet.rows) :
              \E n \in 1..Len(ordered) :
                  /\ sheet.rows[i] = Row(ordered[n])
                  /\ PassedStages(ordered[n])

(***************************************************************************)
(* Properties of the link selection                                        *)
(***************************************************************************)
\* <identifier>_<four digits> at the end of the path, a closing "/" allowed
YearSuffixRe ==
    << Cls(Alpha \cup Digit \cup {"_", "-"}, 1, Inf), Lit("_"), Cls(Digit, 4, 4), Cls({"/"}, 0, 1), Eol >>

HasYearSuffix(url) == re_search(YearSuffixRe, url, FALSE).ok

\* C14: every candidate the extractor emits, every record of the JSON output and
\* every row of the sheet has a url whose path ends in an identifier followed by
\* "_" and four digits; a link to a path without that suffix yields no record.
C14_YearSuffixOnly ==
    /\ \A i \in 1..Len(tournaments) : HasYearSuffix(tournaments[i].url)
    /\ \A i \in 1..Len(output) : HasYearSuffix(output[i].url)
    /\ \A i \in 1..Len(sheet.rows) : HasYearSuffix(sheet.rows[i][5])

(***************************************************************************)
(* Properties of the context of a link                                     *)
(***************************************************************************)
\* the ancestors of link i, among its first five, whose text has a weekday-prefixed
\* date token
Qualifying(doc, i) ==
    {k \in 1..5 : /\ AncestorText(doc, i, k) # None
                  /\ re_search(HasDateInfoRe, AncestorText(doc, i, k), FALSE).ok}

\* the text of the nearest qualifying ancestor, the link's own text without one
NearestContext(doc, i) ==
    IF Qualifying(doc, i) = {} THEN doc[i].text
    ELSE AncestorText(doc, i, CHOOSE k \in Qualifying(doc, i) : \A j \in Qualifying(doc, i) : k <= j)

\* what the loop body appends for link i once parent_text is settled
ParseInContext(doc, i, parent_text) ==
    LET url == doc[i].href
        full_url == IF startswith(url, "/") THEN DGS_BASE_URL \o url ELSE url
        name == doc[i].text
        date_str == FindDate(parent_text)
        parsed_date == parse_date(date_str)
        city == FindCity(parent_text)
    IN  IF date_str = None THEN <<>>
        ELSE IF parsed_date = None THEN <<>>
        ELSE << [name |-> CleanName(name),
                 date |-> parsed_date,
                 city |-> city,
                 tier |-> extract_tier(parent_text),
                 url |-> full_url,
                 distance |-> calculate_distance(city),
                 isGVDG |-> is_gvdg_tournament(name),
                 spots |-> extract_spots(parent_text)] >>

\* the link the loop is at passes the tests that come before the search of a parent
ReachesContext ==
    /\ script = "dgs-scraper.py"
    /\ pc = "links"
    /\ idx <= Len(tournament_links)
    /\ Recorded(html[tournament_links[idx]].href, seen_urls)
    /\ Len(html[tournament_links[idx]].text) >= 5
    /\ ~ContainsAny(lower(html[tournament_links[idx]].text), skip_keywords)

ContextStep ==
    ReachesContext /\ idx' = idx + 1 =>
        tournaments' = tournaments \o
            ParseInContext(html, tournament_links[idx], NearestContext(html, tournament_links[idx]))

\* C15: a link that reaches the search of a parent is parsed in the text of its
\* nearest ancestor, of at most five, that holds a weekday-prefixed date token, and
\* in its own text when none of them holds one (fewer than five ancestors included):
\* the pass of the loop appends what that context yields.
C15_NearestDatedAncestor == [][ContextStep]_vars

(***************************************************************************)
(* Properties of links that share a url                                    *)
(***************************************************************************)
\* link i of the document, taken alone (no url seen before it), yields a record
\* that the validation accepts and the temporal filter keeps on the day of the run
YieldsAlone(doc, i, now) ==
    /\ IsTournamentLink(doc[i])
    /\ filter_future_tournaments(Accepted(ParseLink(doc, i, {})), now) # <<>>

\* link i of the listing, taken alone, yields a record
ListedAlone(doc, i) == ExtractLink(doc, i, {}) # <<>>

\* C16: a discarded link does not suppress the other links of its url: when a link
\* of the document, taken alone, yields a valid record that is not past, the JSON
\* output of the run holds a record with that url; when a link of the listing,
\* taken alone, yields a record, the records handed to the sheet update hold one
\* with that url.
C16_DiscardKeepsOthers ==
    /\ Finished =>
          \A i \in 1..Len(html) :
              YieldsAlone(html, i, today) =>
                  \E n \in 1..Len(output) : output[n].url = ParseLink(html, i, {})[1].url
    /\ script = "scrape_tournaments.py" /\ pc = "update" =>
          \A i \in 1..Len(html) :
              ListedAlone(html, i) =>
                  \E n \in 1..Len(ordered) : ordered[n].url = ExtractLink(html, i, {})[1].url

=============================================================================
